---- MODULE Spec2Model ----
(***************************************************************************)
(* Model of build_tools/update_iree_version_pins.py (the version-pin       *)
(* updater) and of the pytest case tests/kernel/wave/wave_evoformer_test.py *)
(* (skip markers and the closeness assertion).                              *)
(*                                                                          *)
(* A Python str is a sequence of tokens.  A token is one character, or one  *)
(* of the literals the script's regular expressions look for as a whole:    *)
(* the package names and the pin prefixes `<name>==`.  These literals have  *)
(* no proper border and do not overlap each other, so scanning tokens       *)
(* agrees with scanning characters.                                         *)
(***************************************************************************)
EXTENDS Integers, Sequences, FiniteSets, TLC

VARIABLES
    pc,                          \* position of main() / of the function call
    fs,                          \* the two files on disk, by path
    written,                     \* paths opened with "w" and written, in order
    original,                    \* requirements text on disk when main() starts
    package_name,                \* argument of the running/last query
    output,                      \* stdout of the running/last `pip index versions`
    version,                     \* result of the last get_latest_package_version
    iree_base_compiler_version,
    iree_base_runtime_version,
    old_version,
    text,                        \* the local `text` of main()
    exception,                   \* the uncaught exception, if any
    env_e2e,                     \* os.environ WAVE_RUN_E2E_TESTS
    arch,                        \* get_default_arch()
    run_e2e,                     \* module global _run_e2e (0 until the import)
    test_pc,                     \* position of the pytest item
    dtype,                       \* parametrized element type
    shape,                       \* index into default_test_shapes
    max_diff                     \* torch.max(torch.abs(torch_ref - output)).item()

scriptVars == <<pc, fs, written, original, package_name, output, version,
                iree_base_compiler_version, iree_base_runtime_version,
                old_version, text, exception>>
testVars == <<env_e2e, arch, run_e2e, test_pc, dtype, shape, max_diff>>
vars == <<scriptVars, testVars>>

----------------------------------------------------------------------------
(* Bounds *)

MaxTextLen == 4
MaxVersionLen == 2
MaxOutputLen == 5
MaxEnvLen == 2
MaxDiffSteps == 206

----------------------------------------------------------------------------
(* Tokens *)

CompilerName == "iree-base-compiler"
RuntimeName == "iree-base-runtime"
CompilerPin == "iree-base-compiler=="
RuntimePin == "iree-base-runtime=="
NL == "\n"
BS == "\\"

REQUIREMENTS_IREE_PINNED_PATH == "requirements-iree-pinned.txt"
UPDATE_GIT_COMMIT_MESSAGE_PATH == "update_iree_version_text.txt"

None == <<"None">>
NoPackage == "None"
NoFile == <<"ENOENT">>

SeqsUpTo(S, n) == UNION {[1..k -> S] : k \in 0..n}

\* Characters a queried version is built from (a version is whatever
\* `(.*)` captured): a letter and a backslash, and for the compiler version,
\* which the runtime substitution scans after it was inserted, the runtime
\* pin literal.
VersionAlphabet(name) ==
    IF name = CompilerName THEN {"n", BS, RuntimePin} ELSE {"n", BS}
Versions(name) == SeqsUpTo(VersionAlphabet(name), MaxVersionLen)

\* Characters of the requirements file.
TextAlphabet == {CompilerPin, RuntimePin, "1", NL}
Texts == SeqsUpTo(TextAlphabet, MaxTextLen)

\* Characters of the package-index output, for the parser on its own.
OutputAlphabet == {CompilerName, RuntimeName, " ", "(", ")", NL, "n"}
Outputs == SeqsUpTo(OutputAlphabet, MaxOutputLen)

Whitespace == {" ", NL}

----------------------------------------------------------------------------
(* Regular-expression helpers, as Python's re evaluates them *)

\* Index of the first "\n" at or after i, Len(s)+1 when there is none:
\* where `.*` started at i stops.
RECURSIVE EndOfLine(_, _)
EndOfLine(s, i) ==
    IF i > Len(s) THEN Len(s) + 1
    ELSE IF s[i] = NL THEN i
    ELSE EndOfLine(s, i + 1)

\* Largest j in lo..hi-1 with s[j] = ")", 0 when there is none: where the
\* greedy `(.*)\)` ends after backtracking.
RECURSIVE LastParen(_, _, _)
LastParen(s, lo, j) ==
    IF j < lo THEN 0
    ELSE IF s[j] = ")" THEN j
    ELSE LastParen(s, lo, j - 1)

\* pattern `{name}\s\((.*)\)` tried at position i of s.
\* Result: [found, group].
MatchAt(name, s, i) ==
    IF /\ i + 2 <= Len(s)
       /\ s[i] = name
       /\ s[i + 1] \in Whitespace
       /\ s[i + 2] = "("
    THEN LET e == EndOfLine(s, i + 3)
             j == LastParen(s, i + 3, e - 1)
         IN IF j = 0 THEN [found |-> FALSE, group |-> <<>>]
            ELSE [found |-> TRUE, group |-> SubSeq(s, i + 3, j - 1)]
    ELSE [found |-> FALSE, group |-> <<>>]

\* Pattern.match(output): anchored at the start of the string.
re_match(name, s) == MatchAt(name, s, 1)

\* Faulty variant: no check of `matches`, an empty version when none.
get_latest_package_version_silent(name, out) ==
    LET matches == re_match(name, out)
    IN [raised |-> FALSE, version |-> matches.group]

\* What the script does with the output of one query (lines 56-64):
\* [raised, version].
get_latest_package_version(name, out) ==
    LET matches == re_match(name, out)
    IN IF ~matches.found
       THEN [raised |-> TRUE, version |-> None]
       ELSE [raised |-> FALSE, version |-> matches.group]

\* re.findall(pin + "(.*)", s): the groups of the non-overlapping matches,
\* left to right, scanning from position i.
RECURSIVE FindallFrom(_, _, _)
FindallFrom(pin, s, i) ==
    IF i > Len(s) THEN <<>>
    ELSE IF s[i] = pin
         THEN LET e == EndOfLine(s, i + 1)
              IN <<SubSeq(s, i + 1, e - 1)>> \o FindallFrom(pin, s, e)
         ELSE FindallFrom(pin, s, i + 1)

RECURSIVE Reverse(_)
Reverse(q) == IF q = <<>> THEN <<>> ELSE Append(Reverse(Tail(q)), Head(q))

\* Faulty variant: the matches right to left, so that [0] is the last one.
re_findall_reversed(pin, s) == Reverse(FindallFrom(pin, s, 1))

re_findall(pin, s) == FindallFrom(pin, s, 1)

\* The replacement string of re.sub is a template: backslash escapes are
\* processed when the template is compiled, before any match is looked for.
\* `\\` is a backslash, `\n` a newline, a backslash before another ASCII
\* letter or at the end is an error, a backslash before punctuation stays.
\* Result: [err, out].
RECURSIVE ExpandTemplate(_)
ExpandTemplate(t) ==
    IF t = <<>> THEN [err |-> FALSE, out |-> <<>>]
    ELSE IF Head(t) # BS
         THEN LET r == ExpandTemplate(Tail(t))
              IN [err |-> r.err, out |-> <<Head(t)>> \o r.out]
    ELSE IF Len(t) = 1 THEN [err |-> TRUE, out |-> <<>>]
    ELSE LET c == t[2]
             r == ExpandTemplate(SubSeq(t, 3, Len(t)))
         IN IF c = BS THEN [err |-> r.err, out |-> <<BS>> \o r.out]
            ELSE IF c = "n" THEN [err |-> r.err, out |-> <<NL>> \o r.out]
            ELSE IF c \in {" ", "(", ")", NL}
                 THEN [err |-> r.err, out |-> <<BS, c>> \o r.out]
            ELSE [err |-> TRUE, out |-> <<>>]

\* Every match of pin + ".*" in s, scanning from i, replaced by repl.
RECURSIVE SubFrom(_, _, _, _)
SubFrom(pin, repl, s, i) ==
    IF i > Len(s) THEN <<>>
    ELSE IF s[i] = pin
         THEN repl \o SubFrom(pin, repl, s, EndOfLine(s, i + 1))
         ELSE <<s[i]>> \o SubFrom(pin, repl, s, i + 1)

\* The first match alone replaced (count=1).
RECURSIVE SubFirstFrom(_, _, _, _)
SubFirstFrom(pin, repl, s, i) ==
    IF i > Len(s) THEN <<>>
    ELSE IF s[i] = pin
         THEN repl \o SubSeq(s, EndOfLine(s, i + 1), Len(s))
         ELSE <<s[i]>> \o SubFirstFrom(pin, repl, s, i + 1)

\* `.` matching "\n" as well (re.DOTALL): the first match runs to the end.
RECURSIVE SubDotAllFrom(_, _, _, _)
SubDotAllFrom(pin, repl, s, i) ==
    IF i > Len(s) THEN <<>>
    ELSE IF s[i] = pin THEN repl
         ELSE <<s[i]>> \o SubDotAllFrom(pin, repl, s, i + 1)

\* Faulty variant: re.sub(..., count=1).
re_sub_first_only(pin, template, s) ==
    LET repl == ExpandTemplate(template)
    IN IF repl.err THEN [err |-> TRUE, out |-> s]
       ELSE [err |-> FALSE, out |-> SubFirstFrom(pin, repl.out, s, 1)]

\* Faulty variant: re.sub(..., flags=re.DOTALL).
re_sub_dotall(pin, template, s) ==
    LET repl == ExpandTemplate(template)
    IN IF repl.err THEN [err |-> TRUE, out |-> s]
       ELSE [err |-> FALSE, out |-> SubDotAllFrom(pin, repl.out, s, 1)]

\* re.sub(pin + ".*", template, s): [err, out].
re_sub(pin, template, s) ==
    LET repl == ExpandTemplate(template)
    IN IF repl.err THEN [err |-> TRUE, out |-> s]
       ELSE [err |-> FALSE, out |-> SubFrom(pin, repl.out, s, 1)]

\* The f-string of lines 103-106.
body_text(old, new) ==
    <<"Automated update of IREE deps to ">> \o new
    \o <<".", NL, NL, "Diff: https://github.com/iree-org/iree/compare/iree-">>
    \o old \o <<"...iree-">> \o new \o <<NL, "        ">>

\* The two substitutions of lines 90-99: [exception, text].
Substitute(t, compiler_version, runtime_version) ==
    LET s1 == re_sub(CompilerPin, <<CompilerPin>> \o compiler_version, t)
    IN IF s1.err THEN [exception |-> "re.error", text |-> t]
       ELSE LET s2 == re_sub(RuntimePin, <<RuntimePin>> \o runtime_version, s1.out)
            IN IF s2.err THEN [exception |-> "re.error", text |-> s1.out]
               ELSE [exception |-> "none", text |-> s2.out]

\* Faulty variant: an empty old_version when no pin is found, no IndexError.
EditPins_default(t, compiler_version, runtime_version) ==
    LET found == re_findall(CompilerPin, t)
        old == IF found = <<>> THEN <<>> ELSE found[1]
        r == Substitute(t, compiler_version, runtime_version)
    IN [exception |-> r.exception, old_version |-> old, text |-> r.text]

\* Faulty variant: the runtime pin looked up with [0] as the compiler pin is.
EditPins_requires_runtime(t, compiler_version, runtime_version) ==
    LET found == re_findall(CompilerPin, t)
        r == Substitute(t, compiler_version, runtime_version)
    IN IF found = <<>> \/ re_findall(RuntimePin, t) = <<>>
       THEN [exception |-> "IndexError", old_version |-> None, text |-> t]
       ELSE [exception |-> r.exception, old_version |-> found[1], text |-> r.text]

\* Lines 88-99 of main(): old_version, then the two substitutions.
\* Result: [exception, old_version, text].
EditPins(t, compiler_version, runtime_version) ==
    LET found == re_findall(CompilerPin, t)
    IN IF found = <<>>
       THEN [exception |-> "IndexError", old_version |-> None, text |-> t]
       ELSE LET r == Substitute(t, compiler_version, runtime_version)
            IN [exception |-> r.exception, old_version |-> found[1],
                text |-> r.text]

----------------------------------------------------------------------------
(* The package index, as main() queries it *)

WellFormed(name, v) == <<name, " ", "(">> \o v \o <<")", NL>>

\* Outputs of `pip index versions <name>`: the latest version on the first
\* line; the same after a leading line; nothing (a failed query); text
\* without the pattern.
PipOutputs(name) ==
    {WellFormed(name, v) : v \in Versions(name)}
    \cup {<<"W", NL>> \o WellFormed(name, <<"n">>)}
    \cup {<<>>, <<name, NL>>, <<name, " ", "(", "n", NL>>}

----------------------------------------------------------------------------
(* wave_evoformer_test.py: values *)

\* Floats are counted in units of 2^-12 / 100, so that both tolerances and
\* the sampled differences k * 2^-12 (exact in float16 and in bfloat16 for
\* k <= 256) are integers.  Neither tolerance is on that grid, as neither
\* 0.01 nor 0.05 is a float16 or bfloat16 value.
UnitsPerOne == 4096 * 100
GridStep == UnitsPerOne \div 4096

Finite(u) == [kind |-> "finite", units |-> u]
NaN == [kind |-> "nan", units |-> 0]
Inf == [kind |-> "inf", units |-> 0]
NoDiff == [kind |-> "none", units |-> 0]

\* Python's `a < b` on floats, b finite: false for nan and for +inf.
FloatLess(a, b) == a.kind = "finite" /\ a.units < b.units

\* What the comparison can be handed: a grid value, +inf or nan.
DiffValues == {Finite(k * GridStep) : k \in 0..MaxDiffSteps} \cup {NaN, Inf}

DTypes == {"f16", "bf16"}
DefaultTestShapes == 1..4

\* Lines 119-122.
torch_dtype(dt) == IF dt = "bf16" THEN "bfloat16" ELSE "float16"

\* Faulty variant: one tolerance for both precisions.
eps_single(output_dtype) == Finite(UnitsPerOne \div 100)

\* Line 153.
eps(output_dtype) ==
    IF output_dtype = "float16" THEN Finite(UnitsPerOne \div 100)
    ELSE Finite((5 * UnitsPerOne) \div 100)

\* Lines 154-156: TRUE when the assertion holds.
assert_close(d, dt) == FloatLess(d, eps(torch_dtype(dt)))

Archs == {<<"g", "f", "x", "9", "4", "2">>, <<"g", "f", "x", "9", "4", "0">>,
          <<"g", "f", "x", "9", "0", "a">>, <<"g", "f", "x", "1", "1", "0", "0">>}

\* Python's `needle in haystack` on strings.
IsSubstring(needle, hay) ==
    \E i \in 0..(Len(hay) - Len(needle)) :
        SubSeq(hay, i + 1, i + Len(needle)) = needle

EnvAlphabet == {"0", "1", "-", "x"}
EnvValues == {None} \cup SeqsUpTo(EnvAlphabet, MaxEnvLen)

DigitValue(c) == IF c = "1" THEN 1 ELSE 0

RECURSIVE DigitsValue(_)
DigitsValue(ds) ==
    IF ds = <<>> THEN 0
    ELSE 10 * DigitsValue(SubSeq(ds, 1, Len(ds) - 1)) + DigitValue(ds[Len(ds)])

AllDigits(ds) == ds # <<>> /\ \A i \in 1..Len(ds) : ds[i] \in {"0", "1"}

\* Line 28: int(os.environ.get("WAVE_RUN_E2E_TESTS", 0)): [err, value].
int_env(v) ==
    IF v = None THEN [err |-> FALSE, value |-> 0]
    ELSE IF AllDigits(v) THEN [err |-> FALSE, value |-> DigitsValue(v)]
    ELSE IF v # <<>> /\ v[1] = "-" /\ AllDigits(Tail(v))
         THEN [err |-> FALSE, value |-> 0 - DigitsValue(Tail(v))]
    ELSE [err |-> TRUE, value |-> 0]

\* Line 29: the condition of require_e2e.
require_e2e_skips(flag) == flag = 0

\* Lines 30-32: the condition of require_cdna3.
require_cdna3_skips(a) == ~IsSubstring(<<"g", "f", "x", "9", "4">>, a)

\* Lines 71-81: the skipif marks on testEvoformerAttentionForward are
\* require_e2e alone; require_cdna3 is defined and not applied.
item_skipped(flag, a) == require_e2e_skips(flag)

----------------------------------------------------------------------------
(* main(): one action per step of the script *)

TestIdle ==
    /\ env_e2e = None
    /\ arch = None
    /\ run_e2e = 0
    /\ test_pc = "idle"
    /\ dtype = "none"
    /\ shape = 0
    /\ max_diff = NoDiff

Init ==
    /\ pc = "start"
    /\ original \in Texts
    /\ fs = [p \in {REQUIREMENTS_IREE_PINNED_PATH, UPDATE_GIT_COMMIT_MESSAGE_PATH} |->
                IF p = REQUIREMENTS_IREE_PINNED_PATH THEN original ELSE NoFile]
    /\ written = <<>>
    /\ package_name = NoPackage
    /\ output = None
    /\ version = None
    /\ iree_base_compiler_version = None
    /\ iree_base_runtime_version = None
    /\ old_version = None
    /\ text = None
    /\ exception = "none"
    /\ TestIdle

\* Lines 75-77: the first query and its parse.
QueryCompiler ==
    /\ pc = "start"
    /\ \E out \in PipOutputs(CompilerName) :
         LET r == get_latest_package_version(CompilerName, out)
         IN /\ package_name' = CompilerName
            /\ output' = out
            /\ version' = r.version
            /\ IF r.raised
               THEN /\ pc' = "raised"
                    /\ exception' = "RuntimeError"
                    /\ UNCHANGED iree_base_compiler_version
               ELSE /\ pc' = "compiler_queried"
                    /\ iree_base_compiler_version' = r.version
                    /\ UNCHANGED exception
    /\ UNCHANGED <<fs, written, original, iree_base_runtime_version,
                   old_version, text, testVars>>

\* Lines 78-80: the second query and its parse.
QueryRuntime ==
    /\ pc = "compiler_queried"
    /\ \E out \in PipOutputs(RuntimeName) :
         LET r == get_latest_package_version(RuntimeName, out)
         IN /\ package_name' = RuntimeName
            /\ output' = out
            /\ version' = r.version
            /\ IF r.raised
               THEN /\ pc' = "raised"
                    /\ exception' = "RuntimeError"
                    /\ UNCHANGED iree_base_runtime_version
               ELSE /\ pc' = "runtime_queried"
                    /\ iree_base_runtime_version' = r.version
                    /\ UNCHANGED exception
    /\ UNCHANGED <<fs, written, original, iree_base_compiler_version,
                   old_version, text, testVars>>

\* Lines 84-100: read the requirements file, take old_version, substitute.
ReadAndEdit ==
    /\ pc = "runtime_queried"
    /\ LET r == EditPins(fs[REQUIREMENTS_IREE_PINNED_PATH],
                         iree_base_compiler_version, iree_base_runtime_version)
       IN /\ old_version' = r.old_version
          /\ text' = r.text
          /\ exception' = r.exception
          /\ pc' = IF r.exception = "none" THEN "edited" ELSE "raised"
    /\ UNCHANGED <<fs, written, original, package_name, output, version,
                   iree_base_compiler_version, iree_base_runtime_version, testVars>>

\* Lines 102-108: the commit message, written inside the read block.
WriteCommitMessage ==
    /\ pc = "edited"
    /\ fs' = [fs EXCEPT ![UPDATE_GIT_COMMIT_MESSAGE_PATH] =
                 body_text(old_version, iree_base_compiler_version)]
    /\ written' = Append(written, UPDATE_GIT_COMMIT_MESSAGE_PATH)
    /\ pc' = "commit_written"
    /\ UNCHANGED <<original, package_name, output, version,
                   iree_base_compiler_version, iree_base_runtime_version,
                   old_version, text, exception, testVars>>

\* Lines 109-110: the requirements file, written last.
WriteRequirements ==
    /\ pc = "commit_written"
    /\ fs' = [fs EXCEPT ![REQUIREMENTS_IREE_PINNED_PATH] = text]
    /\ written' = Append(written, REQUIREMENTS_IREE_PINNED_PATH)
    /\ pc' = "done"
    /\ UNCHANGED <<original, package_name, output, version,
                   iree_base_compiler_version, iree_base_runtime_version,
                   old_version, text, exception, testVars>>

Next ==
    \/ QueryCompiler
    \/ QueryRuntime
    \/ ReadAndEdit
    \/ WriteCommitMessage
    \/ WriteRequirements

Spec == Init /\ [][Next]_vars

----------------------------------------------------------------------------
(* get_latest_package_version on its own, over every bounded output *)

InitParse ==
    /\ pc = "call"
    /\ package_name \in {CompilerName, RuntimeName}
    /\ output \in Outputs
    /\ version = None
    /\ exception = "none"
    /\ original = <<>>
    /\ fs = [p \in {REQUIREMENTS_IREE_PINNED_PATH, UPDATE_GIT_COMMIT_MESSAGE_PATH} |->
                NoFile]
    /\ written = <<>>
    /\ iree_base_compiler_version = None
    /\ iree_base_runtime_version = None
    /\ old_version = None
    /\ text = None
    /\ TestIdle

\* Lines 56-64 applied to the output of the command.
ParseOutput ==
    /\ pc = "call"
    /\ LET r == get_latest_package_version(package_name, output)
       IN /\ version' = r.version
          /\ pc' = IF r.raised THEN "raised" ELSE "returned"
          /\ exception' = IF r.raised THEN "RuntimeError" ELSE "none"
    /\ UNCHANGED <<fs, written, original, package_name, output,
                   iree_base_compiler_version, iree_base_runtime_version,
                   old_version, text, testVars>>

NextParse == ParseOutput

SpecParse == InitParse /\ [][NextParse]_vars

----------------------------------------------------------------------------
(* One pytest item of testEvoformerAttentionForward *)

ScriptIdle ==
    /\ pc = "idle"
    /\ original = <<>>
    /\ fs = [p \in {REQUIREMENTS_IREE_PINNED_PATH, UPDATE_GIT_COMMIT_MESSAGE_PATH} |->
                NoFile]
    /\ written = <<>>
    /\ package_name = NoPackage
    /\ output = None
    /\ version = None
    /\ iree_base_compiler_version = None
    /\ iree_base_runtime_version = None
    /\ old_version = None
    /\ text = None
    /\ exception = "none"

InitTest ==
    /\ env_e2e \in EnvValues
    /\ arch \in Archs
    /\ run_e2e = 0
    /\ test_pc = "uncollected"
    /\ dtype = "none"
    /\ shape = 0
    /\ max_diff = NoDiff
    /\ ScriptIdle

\* Import of the module: lines 28-36 run once.
Collect ==
    /\ test_pc = "uncollected"
    /\ LET r == int_env(env_e2e)
       IN /\ run_e2e' = r.value
          /\ test_pc' = IF r.err THEN "collect_error" ELSE "collected"
    /\ UNCHANGED <<env_e2e, arch, dtype, shape, max_diff, scriptVars>>

\* Setup of one parametrized item: its skipif marks are evaluated.
Setup ==
    /\ test_pc = "collected"
    /\ \E dt \in DTypes, sh \in DefaultTestShapes :
         /\ dtype' = dt
         /\ shape' = sh
    /\ test_pc' = IF item_skipped(run_e2e, arch) THEN "skipped" ELSE "running"
    /\ UNCHANGED <<env_e2e, arch, run_e2e, max_diff, scriptVars>>

\* Lines 90-146: kernel and reference run; their largest difference is
\* whatever the device produced.
RunKernel ==
    /\ test_pc = "running"
    /\ max_diff' \in DiffValues
    /\ test_pc' = "compared"
    /\ UNCHANGED <<env_e2e, arch, run_e2e, dtype, shape, scriptVars>>

\* Lines 153-156: the assertion.
AssertClose ==
    /\ test_pc = "compared"
    /\ test_pc' = IF assert_close(max_diff, dtype) THEN "passed" ELSE "failed"
    /\ UNCHANGED <<env_e2e, arch, run_e2e, dtype, shape, max_diff, scriptVars>>

NextTest ==
    \/ Collect
    \/ Setup
    \/ RunKernel
    \/ AssertClose

SpecTest == InitTest /\ [][NextTest]_vars

----------------------------------------------------------------------------
(* Vocabulary of the properties, stated without the operators above *)

COMMIT == UPDATE_GIT_COMMIT_MESSAGE_PATH
REQ == REQUIREMENTS_IREE_PINNED_PATH

HasToken(s, tok) == \E i \in 1..Len(s) : s[i] = tok

ContainsSeq(s, sub) ==
    \E i \in 0..(Len(s) - Len(sub)) : SubSeq(s, i + 1, i + Len(sub)) = sub

\* Positions of the newlines of s, and its lines (str.split on "\n").
NewlinesOf(s) == {i \in 1..Len(s) : s[i] = NL}
LineCount(s) == Cardinality(NewlinesOf(s)) + 1
LineStart(s, n) ==
    IF n = 1 THEN 1
    ELSE 1 + CHOOSE i \in NewlinesOf(s) :
                 Cardinality({j \in NewlinesOf(s) : j < i}) = n - 2
LineEnd(s, n) ==
    IF n = LineCount(s) THEN Len(s)
    ELSE (CHOOSE i \in NewlinesOf(s) :
              Cardinality({j \in NewlinesOf(s) : j < i}) = n - 1) - 1
Line(s, n) == SubSeq(s, LineStart(s, n), LineEnd(s, n))

\* out[i..j] reads `<name> (<version>)`, the version on one line.
Occurrence(name, out, i, j) ==
    /\ i + 2 < j
    /\ out[i] = name
    /\ out[i + 1] \in Whitespace
    /\ out[i + 2] = "("
    /\ out[j] = ")"
    /\ \A k \in (i + 3)..(j - 1) : out[k] # NL

Parseable(name, out) ==
    \E i \in 1..Len(out), j \in 1..Len(out) : Occurrence(name, out, i, j)

\* v is the version of some occurrence in out.
OccursWith(name, out, v) ==
    \E i \in 1..Len(out), j \in 1..Len(out) :
        Occurrence(name, out, i, j) /\ v = SubSeq(out, i + 3, j - 1)

\* The version pinned by the first `iree-base-compiler==` of t.
FirstPinned(t) ==
    LET i == CHOOSE k \in 1..Len(t) :
                 t[k] = CompilerPin /\ \A m \in 1..(k - 1) : t[m] # CompilerPin
        stops == {k \in (i + 1)..Len(t) : t[k] = NL} \cup {Len(t) + 1}
        e == CHOOSE k \in stops : \A m \in stops : k <= m
    IN SubSeq(t, i + 1, e - 1)

Pins == {CompilerPin, RuntimePin}
HasPin(l) == \E i \in 1..Len(l) : l[i] \in Pins

\* A pinned line with everything from its first pin on replaced by that
\* pin and its queried version.
Repinned(l, cv, rv) ==
    LET k == CHOOSE i \in 1..Len(l) :
                 l[i] \in Pins /\ \A m \in 1..(i - 1) : l[m] \notin Pins
    IN SubSeq(l, 1, k - 1) \o <<l[k]>> \o (IF l[k] = CompilerPin THEN cv ELSE rv)

FilesUntouched ==
    /\ written = <<>>
    /\ fs[REQ] = original
    /\ fs[COMMIT] = NoFile

QueriesSucceeded == iree_base_runtime_version # None

PlainVersions ==
    /\ ~HasToken(iree_base_compiler_version, BS)
    /\ ~HasToken(iree_base_runtime_version, BS)

----------------------------------------------------------------------------
(* Properties of main() *)

TameVersions ==
    /\ PlainVersions
    /\ ~HasToken(iree_base_compiler_version, RuntimePin)

\* t has a line of the form `iree-base-compiler==X`.
HasCompilerLine(t) ==
    \E n \in 1..LineCount(t) :
        Line(t, n) # <<>> /\ Line(t, n)[1] = CompilerPin

C2_UnparseableRaises ==
    (package_name # NoPackage /\ ~Parseable(package_name, output)) =>
        /\ pc = "raised"
        /\ exception = "RuntimeError"
        /\ FilesUntouched

\* The second query returned nothing and the script stopped.
C2_Witness ==
    /\ pc = "raised"
    /\ exception = "RuntimeError"
    /\ package_name = RuntimeName
    /\ output = <<>>
    /\ iree_base_compiler_version # None

\* C4: both queries succeeded and the file has no compiler pin: the run
\* gets no further than the lookup, ends in an uncaught exception, and
\* writes neither file.
C4_MissingPinRaises ==
    (QueriesSucceeded /\ ~HasToken(original, CompilerPin)) =>
        /\ pc \in {"runtime_queried", "raised"}
        /\ pc = "raised" => exception = "IndexError"
        /\ FilesUntouched

\* The lookup failed on a file that has a runtime pin only.
C4_Witness ==
    /\ pc = "raised"
    /\ exception = "IndexError"
    /\ QueriesSucceeded
    /\ HasToken(original, RuntimePin)

C8_RequirementsBeforeCommit ==
    \A i \in 1..Len(written) :
        written[i] = COMMIT => \E j \in 1..(i - 1) : written[j] = REQ

\* C9, as stated: with a compiler pin and no runtime pin the run does not
\* fail, and ends with the commit message written, the compiler pin
\* updated and no runtime pin in the file.
C9_MissingRuntimePinIgnored ==
    (QueriesSucceeded /\ HasToken(original, CompilerPin)
       /\ ~HasToken(original, RuntimePin)) =>
        /\ pc # "raised"
        /\ pc = "done" =>
              /\ fs[COMMIT] # NoFile
              /\ ContainsSeq(fs[REQ], <<CompilerPin>> \o iree_base_compiler_version)
              /\ ~HasToken(fs[REQ], RuntimePin)

\* C9, amended: the same for queried versions without a backslash and a
\* compiler version without `iree-base-runtime==`.
C9_MissingRuntimePinIgnoredPlain ==
    (QueriesSucceeded /\ TameVersions
       /\ HasToken(original, CompilerPin) /\ ~HasToken(original, RuntimePin)) =>
        /\ pc # "raised"
        /\ pc = "done" =>
              /\ fs[COMMIT] # NoFile
              /\ ContainsSeq(fs[REQ], <<CompilerPin>> \o iree_base_compiler_version)
              /\ ~HasToken(fs[REQ], RuntimePin)

\* A finished run on a file without runtime pin, the queried runtime
\* version being non-empty.
C9_Witness ==
    /\ pc = "done"
    /\ TameVersions
    /\ ~HasToken(original, RuntimePin)
    /\ iree_base_runtime_version # <<>>
    /\ fs[REQ] # original

\* C10, as stated: for versions without a backslash the line count is
\* kept, lines without either pin are identical, and a line with a pin has
\* everything from its first pin on replaced by `<package>==<version>`.
C10_LinesRepinned ==
    (pc = "done" /\ PlainVersions) =>
        /\ LineCount(fs[REQ]) = LineCount(original)
        /\ \A n \in 1..LineCount(original) :
               Line(fs[REQ], n) =
                   IF HasPin(Line(original, n))
                   THEN Repinned(Line(original, n), iree_base_compiler_version,
                                 iree_base_runtime_version)
                   ELSE Line(original, n)

\* C10, amended: the same when moreover the compiler version does not
\* contain `iree-base-runtime==`.
C10_LinesRepinnedPlain ==
    (pc = "done" /\ TameVersions) =>
        /\ LineCount(fs[REQ]) = LineCount(original)
        /\ \A n \in 1..LineCount(original) :
               Line(fs[REQ], n) =
                   IF HasPin(Line(original, n))
                   THEN Repinned(Line(original, n), iree_base_compiler_version,
                                 iree_base_runtime_version)
                   ELSE Line(original, n)

\* A run on a file with a pin that does not start its line and with pins
\* on two lines.
C10_Witness ==
    /\ pc = "done"
    /\ TameVersions
    /\ iree_base_compiler_version # <<>>
    /\ \E n, m \in 1..LineCount(original) :
           /\ n # m
           /\ HasPin(Line(original, n))
           /\ HasPin(Line(original, m))
           /\ Line(original, n) # <<>>
           /\ Line(original, n)[1] \notin Pins

----------------------------------------------------------------------------
(* Property of get_latest_package_version *)

\* C3: whenever `<package_name> (<version>)` occurs anywhere in the output,
\* the function returns, and returns the version of such an occurrence.
C3_FoundAnywhere ==
    (pc # "call" /\ Parseable(package_name, output)) =>
        /\ pc = "returned"
        /\ OccursWith(package_name, output, version)

----------------------------------------------------------------------------
(* Properties of the pytest item *)

Decided == {"skipped", "running", "compared", "passed", "failed"}

\* C6: the item is skipped exactly when the e2e flag is unset or zero or
\* the default architecture does not contain `gfx94`.
C6_SkippedUnlessE2EAndCDNA3 ==
    test_pc \in Decided =>
        (test_pc = "skipped" <=>
            (\/ env_e2e = None
             \/ run_e2e = 0
             \/ ~ContainsSeq(arch, <<"g", "f", "x", "9", "4">>)))

Tolerance == IF dtype = "f16" THEN UnitsPerOne \div 100 ELSE (5 * UnitsPerOne) \div 100

Exceeds(d, tol) == d.kind = "inf" \/ (d.kind = "finite" /\ d.units > tol)

\* C7, as stated: the tolerance is 1e-2 for f16 and 5e-2 for bf16 and the
\* item fails exactly when the difference exceeds it.
C7_FailsIffExceeds ==
    test_pc \in {"passed", "failed"} =>
        (test_pc = "failed" <=> Exceeds(max_diff, Tolerance))

\* C7, amended: with these tolerances the item passes exactly when the
\* difference is a number strictly below the tolerance; it fails
\* otherwise, also when the difference is NaN.
C7_PassesIffBelow ==
    test_pc \in {"passed", "failed"} =>
        (test_pc = "passed" <=>
            (max_diff.kind = "finite" /\ max_diff.units < Tolerance))

\* A bf16 item that passed with a difference above the f16 tolerance.
C7_Witness ==
    /\ test_pc = "passed"
    /\ dtype = "bf16"
    /\ max_diff.units > UnitsPerOne \div 100

====
